---------------------------- MODULE Spec2Model ----------------------------
(***************************************************************************)
(* A model of serial_tool.py (wirenboard/serial_tool): the process from    *)
(* interpreter start to exit, the hex codec and the line completer.        *)
(*                                                                         *)
(* The script's interpreter line is "#!/usr/bin/python3" and the file is   *)
(* only accepted by a Python 3 parser (print(..., file=sys.stderr) is a    *)
(* syntax error for Python 2), so every library call is modelled with its  *)
(* Python 3 behaviour:                                                     *)
(*   - the name raw_input is not bound (NameError when it is evaluated);   *)
(*   - binascii.unhexlify raises binascii.Error, a ValueError, on an       *)
(*     odd-length string, and returns bytes;                               *)
(*   - iterating bytes yields ints, and binascii.hexlify(int) raises       *)
(*     TypeError;                                                          *)
(*   - str + bytes raises TypeError; Serial.read returns bytes;            *)
(*   - time.sleep raises ValueError on a negative length;                  *)
(*   - "%d" % nan raises ValueError.                                       *)
(* Text is a sequence of one-character strings, bytes are a sequence of    *)
(* integers 0..255.                                                        *)
(***************************************************************************)
EXTENDS Integers, Sequences, FiniteSets, TLC

\* ------------------------------------------------------------------ bounds
\* Bytes an unsolicited ("chatter") device may send during one run.
MaxReply == 2
\* Longest text the codec specification decodes.
MaxText == 3
\* Longest byte sequence the codec specification encodes.
MaxBytes == 2
\* Largest index the line editor passes to complete().
MaxState == 3
\* Calls of complete()/add_option() in one completer run.
MaxCalls == 4

\* --------------------------------------------------------- Python values
None == [type |-> "NoneType", val |-> <<>>]
Str(s) == [type |-> "str", val |-> s]
Bytes(b) == [type |-> "bytes", val |-> b]
Ok(v) == [ok |-> TRUE, val |-> v, exc |-> "none"]
Raise(e) == [ok |-> FALSE, val |-> None, exc |-> e]

\* bool(x) of None, a str or bytes.
Truthy(x) == x.type # "NoneType" /\ x.val # <<>>

\* Exception classes and their bases.
ExcBases ==
  [e \in {"binascii.Error", "ValueError", "TypeError", "NameError", "AttributeError",
          "IndexError", "SerialException", "KeyboardInterrupt", "EOFError"} |->
     CASE e = "binascii.Error" -> {"binascii.Error", "ValueError", "Exception"}
       [] e = "SerialException" -> {"SerialException", "OSError", "Exception"}
       [] e = "KeyboardInterrupt" -> {"KeyboardInterrupt"}
       [] OTHER -> {e, "Exception"}]

\* Whether "except classes:" catches a raised e.
Catches(classes, e) == (ExcBases[e] \cap classes) # {}

\* ------------------------------------------------------------- hex codec
HexDigits ==
  {"0", "1", "2", "3", "4", "5", "6", "7", "8", "9",
   "a", "b", "c", "d", "e", "f", "A", "B", "C", "D", "E", "F"}

HexVal(c) ==
  CASE c = "0" -> 0 [] c = "1" -> 1 [] c = "2" -> 2 [] c = "3" -> 3
    [] c = "4" -> 4 [] c = "5" -> 5 [] c = "6" -> 6 [] c = "7" -> 7
    [] c = "8" -> 8 [] c = "9" -> 9
    [] c \in {"a", "A"} -> 10 [] c \in {"b", "B"} -> 11 [] c \in {"c", "C"} -> 12
    [] c \in {"d", "D"} -> 13 [] c \in {"e", "E"} -> 14 [] c \in {"f", "F"} -> 15

IsHexDigit(c) == c \in HexDigits

\* re.sub(r"[^0-9a-fA-F]", "", s)
StripNonHex(s) == SelectSeq(s, IsHexDigit)

\* binascii.unhexlify of a str of hex digits.
binascii_unhexlify(s) ==
  IF Len(s) % 2 = 1
    THEN Raise("binascii.Error")
    ELSE Ok(Bytes([i \in 1..(Len(s) \div 2) |-> 16 * HexVal(s[2 * i - 1]) + HexVal(s[2 * i])]))

unhexlify(s) == binascii_unhexlify(StripNonHex(s))

LowerHexDigit(n) ==
  CASE n = 0 -> "0" [] n = 1 -> "1" [] n = 2 -> "2" [] n = 3 -> "3"
    [] n = 4 -> "4" [] n = 5 -> "5" [] n = 6 -> "6" [] n = 7 -> "7"
    [] n = 8 -> "8" [] n = 9 -> "9" [] n = 10 -> "a" [] n = 11 -> "b"
    [] n = 12 -> "c" [] n = 13 -> "d" [] n = 14 -> "e" [] n = 15 -> "f"

\* "for c in s": the elements a str or bytes value yields.
Iterate(s) ==
  [i \in 1..Len(s.val) |->
     IF s.type = "bytes" THEN [type |-> "int", val |-> s.val[i]]
                         ELSE [type |-> "str", val |-> <<s.val[i]>>]]

\* binascii.hexlify(c): only a bytes-like argument is accepted.
binascii_hexlify(c) ==
  IF c.type = "bytes"
    THEN Ok(Bytes([i \in 1..(2 * Len(c.val)) |->
                     IF i % 2 = 1 THEN LowerHexDigit(c.val[(i + 1) \div 2] \div 16)
                                  ELSE LowerHexDigit(c.val[i \div 2] % 16)]))
    ELSE Raise("TypeError")

\* " ".join(binascii.hexlify(c).upper() for c in s): the generator raises at
\* its first element; with no element the join of nothing is the empty str.
hexlify(s) ==
  IF Len(s.val) = 0
    THEN Ok(Str(<<>>))
    ELSE LET first == binascii_hexlify(Iterate(s)[1])
         IN  IF first.ok THEN Raise("TypeError") ELSE Raise(first.exc)

\* a + b for str/bytes operands.
Concat(a, b) == IF a.type = b.type THEN Ok([type |-> a.type, val |-> a.val \o b.val])
                                   ELSE Raise("TypeError")


\* ------------------------------------------------------------ the process
VARIABLES
  args,        \* the parsed command line (argparse namespace)
  dev,         \* how the attached device behaves
  histFile,    \* "present" or "missing": ~/.serial_tool.history at start
  pc,          \* where the process is
  exc,         \* the exception propagating, or "none"
  rc,          \* the name rc of the __main__ block: "unbound", "None" or "1"
  exitStatus,  \* the process's exit status, -1 while it runs
  ser,         \* the serial.Serial object: "none", "open" or "closed"
  ioLog,       \* the calls made on the serial layer, in order
  tx,          \* the byte strings written to the port
  rxbuf,       \* bytes waiting in the port's input buffer
  drained,     \* bytes ser.read(1) has taken from the port
  devSent,     \* bytes the chatter device has sent
  input_hex,   \* the local input_hex
  out,         \* the local out
  stdout,      \* lines printed to standard output
  stderr,      \* lines printed to standard error
  histLoaded,  \* whether read_history_file found a file
  histWrites   \* calls of readline.write_history_file

VARIABLES
  options,     \* SimpleCompleter.options
  matches,     \* SimpleCompleter.matches, with whether the attribute is bound
  response,    \* what the last complete() call returned or raised
  lastCall,    \* the last call made on the completer
  atZero,      \* options and text at the last complete(text, 0) (history)
  calls        \* calls made so far

VARIABLES
  codecIn,     \* the value handed to the codec
  codecStep,   \* "input", "encoded", "decoded"
  codecEnc,    \* result of hexlify
  codecDec     \* result of unhexlify

progVars == <<args, dev, histFile, pc, exc, rc, exitStatus, ser, ioLog, tx, rxbuf,
              drained, devSent, input_hex, out, stdout, stderr, histLoaded, histWrites>>
compVars == <<options, matches, response, lastCall, atZero, calls>>
codecVars == <<codecIn, codecStep, codecEnc, codecDec>>
vars == <<progVars, compVars, codecVars>>

\* serial.Serial.BAUDRATES, PARITIES, STOPBITS, BYTESIZES (pyserial).
BAUDRATES == {50, 75, 110, 134, 150, 200, 300, 600, 1200, 1800, 2400, 4800, 9600,
              19200, 38400, 57600, 115200}
PARITIES == {"N", "E", "O", "M", "S"}
\* Stop bits are floats; they are written as their decimal text, "nan" for float("nan").
STOPBITS == {"1", "1.5", "2"}
BYTESIZES == {5, 6, 7, 8}

\* The --batch strings tried: absent (the default None), empty, even and odd
\* runs of hex digits, separators, no hex digit at all.
BatchTexts ==
  { <<>>, <<"0", "1", " ", "0", "2">>, <<"a", "B">>, <<"a", "b", "c">>,
    <<"a", "b", " ", "c">>, <<"z", "z">> }

\* argparse's result: the options of lines 62-106 with their types.
ArgsSpace ==
  [baud : {9600, 12345},
   parity : {"N", "X"},
   stop_bits : {"1", "1.5", "3", "nan"},
   data_bits : {8, 9},
   read_timeout : {-1, 0, 1},
   batch_mode : {None} \cup {Str(t) : t \in BatchTexts}]

ByteSample == {1, 171}

Line(kind, text) == [kind |-> kind, text |-> text]

\* "... %d" % x for a float x.
FormatD(x) == IF x = "nan" THEN Raise("ValueError") ELSE Ok(Str(<<x>>))

\* Names bound when the loop runs: the module's globals and (a sample of) the
\* builtins of the interpreter.
BoundNames ==
  {"argparse", "binascii", "logging", "os", "re", "readline", "sys", "time", "serial",
   "termcolor", "SimpleCompleter", "unhexlify", "hexlify", "main", "do_batch_mode",
   "do_interactive_mode", "print", "input", "sorted", "set", "object"}

Lookup(name) == IF name \in BoundNames THEN Ok(Str(<<name>>)) ELSE Raise("NameError")

InitCompIdle ==
  /\ options = {} /\ matches = [bound |-> FALSE, val |-> <<>>]
  /\ response = Ok(None) /\ lastCall = [op |-> "none", text |-> <<>>, state |-> 0]
  /\ atZero = [called |-> FALSE, options |-> {}, text |-> <<>>] /\ calls = 0

InitCodecIdle ==
  /\ codecIn = None /\ codecStep = "idle" /\ codecEnc = Ok(None) /\ codecDec = Ok(None)

Init ==
  /\ args \in ArgsSpace
  /\ dev \in {"silent", "echo", "chatter"}
  /\ histFile \in {"present", "missing"}
  /\ pc = "start"
  /\ exc = "none"
  /\ rc = "unbound"
  /\ exitStatus = -1
  /\ ser = "none"
  /\ ioLog = <<>>
  /\ tx = <<>>
  /\ rxbuf = <<>>
  /\ drained = <<>>
  /\ devSent = 0
  /\ input_hex = None
  /\ out = None
  /\ stdout = <<>>
  /\ stderr = <<>>
  /\ histLoaded = FALSE
  /\ histWrites = 0
  /\ InitCompIdle
  /\ InitCodecIdle

\* An exception leaves main(): control goes to the finally clause of line 212.
Propagate(e) == exc' = e /\ pc' = "finally"

\* "return v" from main(): rc is bound and the finally clause runs.
Return(v) == rc' = v /\ pc' = "finally" /\ exc' = exc

\* Lines 201-208: the history file is read, a missing one is tolerated.
LoadHistory ==
  /\ pc = "start"
  /\ histLoaded' = (histFile = "present")
  /\ pc' = "check_baud"
  /\ UNCHANGED <<args, dev, histFile, exc, rc, exitStatus, ser, ioLog, tx, rxbuf, drained,
                 devSent, input_hex, out, stdout, stderr, histWrites>>
  /\ UNCHANGED <<compVars, codecVars>>

CheckBaud ==
  /\ pc = "check_baud"
  /\ IF args.baud \notin BAUDRATES
       THEN /\ stdout' = Append(stdout, Line("ERROR:", "incorrect baudrate"))
            /\ Return("1")
       ELSE /\ pc' = "check_parity"
            /\ UNCHANGED <<stdout, rc, exc>>
  /\ UNCHANGED <<args, dev, histFile, exitStatus, ser, ioLog, tx, rxbuf, drained, devSent,
                 input_hex, out, stderr, histLoaded, histWrites>>
  /\ UNCHANGED <<compVars, codecVars>>

\* CheckParity with the "return 1" of line 117 left out: the error is printed
\* and main() goes on.
CheckParityNoReturn ==
  /\ pc = "check_parity"
  /\ stdout' = IF args.parity \notin PARITIES
                 THEN Append(stdout, Line("ERROR:", "incorrect parity"))
                 ELSE stdout
  /\ pc' = "check_stop_bits"
  /\ UNCHANGED <<args, dev, histFile, exc, rc, exitStatus, ser, ioLog, tx, rxbuf, drained,
                 devSent, input_hex, out, stderr, histLoaded, histWrites>>
  /\ UNCHANGED <<compVars, codecVars>>

CheckParity ==
  /\ pc = "check_parity"
  /\ IF args.parity \notin PARITIES
       THEN /\ stdout' = Append(stdout, Line("ERROR:", "incorrect parity"))
            /\ Return("1")
       ELSE /\ pc' = "check_stop_bits"
            /\ UNCHANGED <<stdout, rc, exc>>
  /\ UNCHANGED <<args, dev, histFile, exitStatus, ser, ioLog, tx, rxbuf, drained, devSent,
                 input_hex, out, stderr, histLoaded, histWrites>>
  /\ UNCHANGED <<compVars, codecVars>>

\* Line 120 formats the value with %d before print is called.
CheckStopBits ==
  /\ pc = "check_stop_bits"
  /\ IF args.stop_bits \notin STOPBITS
       THEN IF FormatD(args.stop_bits).ok
              THEN /\ stdout' = Append(stdout, Line("ERROR:", "incorrect stop bits setting"))
                   /\ Return("1")
              ELSE /\ Propagate(FormatD(args.stop_bits).exc)
                   /\ UNCHANGED <<stdout, rc>>
       ELSE /\ pc' = "open"
            /\ UNCHANGED <<stdout, rc, exc>>
  /\ UNCHANGED <<args, dev, histFile, exitStatus, ser, ioLog, tx, rxbuf, drained, devSent,
                 input_hex, out, stderr, histLoaded, histWrites>>
  /\ UNCHANGED <<compVars, codecVars>>

\* serial.Serial(port=..., ...) opens the port in its constructor.
OpenOk ==
  /\ pc = "open"
  /\ args.data_bits \in BYTESIZES
  /\ ser' = "open"
  /\ ioLog' = Append(ioLog, "open")
  /\ pc' = "select_mode"
  /\ UNCHANGED <<args, dev, histFile, exc, rc, exitStatus, tx, rxbuf, drained, devSent,
                 input_hex, out, stdout, stderr, histLoaded, histWrites>>
  /\ UNCHANGED <<compVars, codecVars>>

\* The constructor rejects a byte size it does not support with ValueError before
\* it touches the device; the open itself may fail with SerialException.
OpenFails ==
  /\ pc = "open"
  /\ IF args.data_bits \notin BYTESIZES
       THEN /\ Propagate("ValueError")
            /\ UNCHANGED ioLog
       ELSE /\ Propagate("SerialException")
            /\ ioLog' = Append(ioLog, "open_failed")
  /\ UNCHANGED <<args, dev, histFile, rc, exitStatus, ser, tx, rxbuf, drained, devSent,
                 input_hex, out, stdout, stderr, histLoaded, histWrites>>
  /\ UNCHANGED <<compVars, codecVars>>

\* Lines 132-135: "if args.batch_mode:" tests the truth value of the option.
SelectsBatch(a) == Truthy(a.batch_mode)

SelectMode ==
  /\ pc = "select_mode"
  /\ pc' = IF SelectsBatch(args) THEN "b_decode" ELSE "i_banner"
  /\ UNCHANGED <<args, dev, histFile, exc, rc, exitStatus, ser, ioLog, tx, rxbuf, drained,
                 devSent, input_hex, out, stdout, stderr, histLoaded, histWrites>>
  /\ UNCHANGED <<compVars, codecVars>>

\* ------------------------------------------------------------ batch mode
\* Lines 139-142: the decode; the handler names TypeError and reads e.message,
\* which no exception has under this interpreter.
BatchDecode ==
  /\ pc = "b_decode"
  /\ LET r == unhexlify(args.batch_mode.val)
     IN  IF r.ok
           THEN /\ input_hex' = r.val
                /\ pc' = "b_write"
                /\ UNCHANGED exc
           ELSE /\ IF Catches({"TypeError"}, r.exc)
                     THEN Propagate("AttributeError")
                     ELSE Propagate(r.exc)
                /\ UNCHANGED input_hex
  /\ UNCHANGED <<args, dev, histFile, rc, exitStatus, ser, ioLog, tx, rxbuf, drained,
                 devSent, out, stdout, stderr, histLoaded, histWrites>>
  /\ UNCHANGED <<compVars, codecVars>>

\* Lines 144-145: ser.write(input_hex); out = "". An echoing device returns the
\* bytes, which are in the input buffer by the time the wait is over.
BatchWrite ==
  /\ pc = "b_write"
  /\ ioLog' = Append(ioLog, "write")
  /\ tx' = Append(tx, input_hex.val)
  /\ rxbuf' = IF dev = "echo" THEN rxbuf \o input_hex.val ELSE rxbuf
  /\ out' = Str(<<>>)
  /\ pc' = "b_sleep"
  /\ UNCHANGED <<args, dev, histFile, exc, rc, exitStatus, ser, drained, devSent,
                 input_hex, stdout, stderr, histLoaded, histWrites>>
  /\ UNCHANGED <<compVars, codecVars>>

\* Line 148: time.sleep(args.read_timeout).
BatchSleep ==
  /\ pc = "b_sleep"
  /\ IF args.read_timeout < 0
       THEN Propagate("ValueError")
       ELSE pc' = "b_poll" /\ UNCHANGED exc
  /\ UNCHANGED <<args, dev, histFile, rc, exitStatus, ser, ioLog, tx, rxbuf, drained,
                 devSent, input_hex, out, stdout, stderr, histLoaded, histWrites>>
  /\ UNCHANGED <<compVars, codecVars>>

\* Line 149: while ser.inWaiting() > 0.
BatchPoll ==
  /\ pc = "b_poll"
  /\ ioLog' = Append(ioLog, "inWaiting")
  /\ pc' = IF Len(rxbuf) > 0 THEN "b_read" ELSE "b_print"
  /\ UNCHANGED <<args, dev, histFile, exc, rc, exitStatus, ser, tx, rxbuf, drained,
                 devSent, input_hex, out, stdout, stderr, histLoaded, histWrites>>
  /\ UNCHANGED <<compVars, codecVars>>

\* Line 150: out += ser.read(1). The byte is taken from the port, then added to out.
BatchRead ==
  /\ pc = "b_read"
  /\ ioLog' = Append(ioLog, "read")
  /\ rxbuf' = Tail(rxbuf)
  /\ drained' = Append(drained, Head(rxbuf))
  /\ LET r == Concat(out, Bytes(<<Head(rxbuf)>>))
     IN  IF r.ok
           THEN out' = r.val /\ pc' = "b_poll" /\ UNCHANGED exc
           ELSE Propagate(r.exc) /\ UNCHANGED out
  /\ UNCHANGED <<args, dev, histFile, rc, exitStatus, ser, tx, devSent, input_hex,
                 stdout, stderr, histLoaded, histWrites>>
  /\ UNCHANGED <<compVars, codecVars>>

\* Lines 152-154, then main() falls off its end: it returns None.
BatchPrint ==
  /\ pc = "b_print"
  /\ IF out # Str(<<>>)
       THEN LET h == hexlify(out)
            IN  IF h.ok
                  THEN stdout' = Append(stdout, Line("reply", h.val.val)) /\ Return("None")
                  ELSE Propagate(h.exc) /\ UNCHANGED <<stdout, rc>>
       ELSE Return("None") /\ UNCHANGED stdout
  /\ UNCHANGED <<args, dev, histFile, exitStatus, ser, ioLog, tx, rxbuf, drained,
                 devSent, input_hex, out, stderr, histLoaded, histWrites>>
  /\ UNCHANGED <<compVars, codecVars>>

\* ------------------------------------------------------ interactive mode
\* Lines 158-163: the two banner prints.
InteractiveBanner ==
  /\ pc = "i_banner"
  /\ stdout' = stdout \o <<Line("banner", "serial_tool on"), Line("banner", "Enter your commands")>>
  /\ pc' = "i_prompt"
  /\ UNCHANGED <<args, dev, histFile, exc, rc, exitStatus, ser, ioLog, tx, rxbuf, drained,
                 devSent, input_hex, out, stderr, histLoaded, histWrites>>
  /\ UNCHANGED <<compVars, codecVars>>

\* Lines 170-173: what the try statement of line 168 does with an exception
\* raised in its body: the handler is for KeyboardInterrupt and EOFError; when it
\* catches, it prints, closes the session and returns.
PromptRaises(e) ==
  IF Catches({"KeyboardInterrupt", "EOFError"}, e)
    THEN /\ stdout' = Append(stdout, Line("exiting", "exiting"))
         /\ ser' = "closed"
         /\ ioLog' = Append(ioLog, "close")
         /\ Return("None")
    ELSE /\ Propagate(e)
         /\ UNCHANGED <<stdout, ser, ioLog, rc>>

\* Lines 168-169: evaluating the call raw_input(...) starts by looking the name
\* up. The name is not bound, so the call is never made and no line is ever read:
\* lines 175-197 cannot be reached.
InteractivePrompt ==
  /\ pc = "i_prompt"
  /\ ~Lookup("raw_input").ok
  /\ PromptRaises(Lookup("raw_input").exc)
  /\ UNCHANGED <<args, dev, histFile, exitStatus, tx, rxbuf, drained, devSent, input_hex,
                 out, stderr, histLoaded, histWrites>>
  /\ UNCHANGED <<compVars, codecVars>>

\* Control-C handled while the try statement of line 168 is active.
PromptInterrupt ==
  /\ pc = "i_prompt"
  /\ PromptRaises("KeyboardInterrupt")
  /\ UNCHANGED <<args, dev, histFile, exitStatus, tx, rxbuf, drained, devSent, input_hex,
                 out, stderr, histLoaded, histWrites>>
  /\ UNCHANGED <<compVars, codecVars>>

\* ------------------------------------------------- environment and exit
\* The steps of do_batch_mode and do_interactive_mode that no try statement
\* with a KeyboardInterrupt handler encloses.
UnguardedPcs == {"b_decode", "b_write", "b_sleep", "b_poll", "b_read", "b_print", "i_banner"}

\* Control-C while the session is in use: KeyboardInterrupt is raised at the
\* step the process is at, and nothing there catches it.
Interrupt ==
  /\ pc \in UnguardedPcs
  /\ Propagate("KeyboardInterrupt")
  /\ UNCHANGED <<args, dev, histFile, rc, exitStatus, ser, ioLog, tx, rxbuf, drained,
                 devSent, input_hex, out, stdout, stderr, histLoaded, histWrites>>
  /\ UNCHANGED <<compVars, codecVars>>

\* The device goes away: write, inWaiting or read raises SerialException.
SerialIOError ==
  /\ pc \in {"b_write", "b_poll", "b_read"}
  /\ Propagate("SerialException")
  /\ UNCHANGED <<args, dev, histFile, rc, exitStatus, ser, ioLog, tx, rxbuf, drained,
                 devSent, input_hex, out, stdout, stderr, histLoaded, histWrites>>
  /\ UNCHANGED <<compVars, codecVars>>

\* A device that talks unasked puts a byte into the input buffer of the open port.
DeviceSend ==
  /\ dev = "chatter"
  /\ ser = "open"
  /\ pc \notin {"exit", "terminated"}
  /\ devSent < MaxReply
  /\ \E b \in ByteSample : rxbuf' = Append(rxbuf, b)
  /\ devSent' = devSent + 1
  /\ UNCHANGED <<args, dev, histFile, pc, exc, rc, exitStatus, ser, ioLog, tx, drained,
                 input_hex, out, stdout, stderr, histLoaded, histWrites>>
  /\ UNCHANGED <<compVars, codecVars>>

\* Finally with the save after the try statement instead of in a finally clause:
\* it runs only when main() returned.
FinallyOnlyOnReturn ==
  /\ pc = "finally"
  /\ histWrites' = IF exc = "none" THEN histWrites + 1 ELSE histWrites
  /\ pc' = "exit"
  /\ UNCHANGED <<args, dev, histFile, exc, rc, exitStatus, ser, ioLog, tx, rxbuf, drained,
                 devSent, input_hex, out, stdout, stderr, histLoaded>>
  /\ UNCHANGED <<compVars, codecVars>>

\* Lines 212-213: finally: readline.write_history_file(...).
Finally ==
  /\ pc = "finally"
  /\ histWrites' = histWrites + 1
  /\ pc' = "exit"
  /\ UNCHANGED <<args, dev, histFile, exc, rc, exitStatus, ser, ioLog, tx, rxbuf, drained,
                 devSent, input_hex, out, stdout, stderr, histLoaded>>
  /\ UNCHANGED <<compVars, codecVars>>

\* The status of a process that ends with an uncaught exception.
UncaughtStatus(e) == IF e = "KeyboardInterrupt" THEN 130 ELSE 1

\* Line 214, sys.exit(rc), or the exception leaving the script with a traceback.
Exit ==
  /\ pc = "exit"
  /\ IF exc # "none"
       THEN /\ stderr' = Append(stderr, Line("Traceback", exc))
            /\ exitStatus' = UncaughtStatus(exc)
       ELSE /\ exitStatus' = (IF rc = "1" THEN 1 ELSE 0)
            /\ UNCHANGED stderr
  /\ pc' = "terminated"
  /\ UNCHANGED <<args, dev, histFile, exc, rc, ser, ioLog, tx, rxbuf, drained,
                 devSent, input_hex, out, stdout, histLoaded, histWrites>>
  /\ UNCHANGED <<compVars, codecVars>>

Next ==
  \/ LoadHistory
  \/ CheckBaud
  \/ CheckParity
  \/ CheckStopBits
  \/ OpenOk
  \/ OpenFails
  \/ SelectMode
  \/ BatchDecode
  \/ BatchWrite
  \/ BatchSleep
  \/ BatchPoll
  \/ BatchRead
  \/ BatchPrint
  \/ InteractiveBanner
  \/ InteractivePrompt
  \/ PromptInterrupt
  \/ Interrupt
  \/ SerialIOError
  \/ DeviceSend
  \/ Finally
  \/ Exit

Spec == Init /\ [][Next]_vars

\* -------------------------------------------------------- line completer
\* Code points of the characters the completer's words are made of.
Ord(c) ==
  CASE c = "e" -> 101 [] c = "g" -> 103 [] c = "i" -> 105 [] c = "n" -> 110
    [] c = "o" -> 111 [] c = "p" -> 112 [] c = "t" -> 116 [] c = "x" -> 120

\* a < b for two str values: the order sorted() uses.
StrLess(a, b) ==
  \E i \in 1..(Len(b)) :
    /\ \A j \in 1..(i - 1) : j <= Len(a) /\ a[j] = b[j]
    /\ \/ i = Len(a) + 1
       \/ i <= Len(a) /\ Ord(a[i]) < Ord(b[i])

\* s.startswith(text)
StartsWith(s, text) == Len(text) <= Len(s) /\ SubSeq(s, 1, Len(text)) = text

\* The orders in which iterating a set may yield its elements.
Orderings(S) ==
  {f \in [1..Cardinality(S) -> S] : \A i, j \in 1..Cardinality(S) : i # j => f[i] # f[j]}

RECURSIVE sorted(_)
sorted(S) ==
  IF S = {}
    THEN <<>>
    ELSE LET m == CHOOSE x \in S : \A y \in S : x = y \/ StrLess(x, y)
         IN  <<m>> \o sorted(S \ {m})

\* MatchLists without the sorted() of line 33.
MatchListsUnsorted(opts, text) ==
  IF text # <<>>
    THEN Orderings({s \in opts : s # <<>> /\ StartsWith(s, text)})
    ELSE Orderings(opts)

\* Lines 29-33: the match lists complete(text, 0) may build.
MatchLists(opts, text) ==
  IF text # <<>>
    THEN Orderings({s \in opts : s # <<>> /\ StartsWith(s, text)})
    ELSE {sorted(opts)}

\* self.matches: AttributeError while the attribute is not bound.
GetMatches(m) == IF m.bound THEN Ok(m.val) ELSE Raise("AttributeError")

\* list[state] for state >= 0.
Subscript(list, state) ==
  IF state < Len(list) THEN Ok(Str(list[state + 1])) ELSE Raise("IndexError")

\* Lines 38-43: try: response = self.matches[state]; except IndexError: None.
Respond(m, state) ==
  LET attr == GetMatches(m)
      r == IF attr.ok THEN Subscript(attr.val, state) ELSE Raise(attr.exc)
  IN  IF r.ok THEN r
      ELSE IF Catches({"IndexError"}, r.exc) THEN Ok(None) ELSE r

\* Words registered with add_option, prefixes typed at the prompt.
Words == { <<"p", "i", "n", "g">>, <<"p", "o", "n", "g">>, <<"e">>, <<>> }
Prefixes == { <<>>, <<"p">>, <<"e">>, <<"p", "o">>, <<"x">> }

InitProgIdle ==
  /\ args = [baud |-> 9600, parity |-> "N", stop_bits |-> "1", data_bits |-> 8,
             read_timeout |-> 1, batch_mode |-> None]
  /\ dev = "silent" /\ histFile = "missing" /\ pc = "idle" /\ exc = "none"
  /\ rc = "unbound" /\ exitStatus = -1 /\ ser = "none" /\ ioLog = <<>> /\ tx = <<>>
  /\ rxbuf = <<>> /\ drained = <<>> /\ devSent = 0 /\ input_hex = None /\ out = None
  /\ stdout = <<>> /\ stderr = <<>> /\ histLoaded = FALSE /\ histWrites = 0

\* Lines 17-19: SimpleCompleter(): options = {"exit"}; matches is not assigned.
InitCompleter ==
  /\ options = { <<"e", "x", "i", "t">> }
  /\ matches = [bound |-> FALSE, val |-> <<>>]
  /\ response = Ok(None)
  /\ lastCall = [op |-> "none", text |-> <<>>, state |-> 0]
  /\ atZero = [called |-> FALSE, options |-> {}, text |-> <<>>]
  /\ calls = 0
  /\ InitProgIdle
  /\ InitCodecIdle

\* Lines 21-22.
add_option(option) ==
  /\ calls < MaxCalls
  /\ options' = options \cup {option}
  /\ lastCall' = [op |-> "add_option", text |-> option, state |-> 0]
  /\ calls' = calls + 1
  /\ UNCHANGED <<matches, response, atZero>>
  /\ UNCHANGED <<progVars, codecVars>>

\* Lines 24-43.
complete(text, state) ==
  /\ calls < MaxCalls
  /\ IF state = 0
       THEN /\ \E l \in MatchLists(options, text) : matches' = [bound |-> TRUE, val |-> l]
            /\ atZero' = [called |-> TRUE, options |-> options, text |-> text]
       ELSE UNCHANGED <<matches, atZero>>
  /\ response' = Respond(matches', state)
  /\ lastCall' = [op |-> "complete", text |-> text, state |-> state]
  /\ calls' = calls + 1
  /\ UNCHANGED options
  /\ UNCHANGED <<progVars, codecVars>>

NextCompleter ==
  \/ \E w \in Words : add_option(w)
  \/ \E text \in Prefixes, state \in 0..MaxState : complete(text, state)

SpecCompleter == InitCompleter /\ [][NextCompleter]_vars

\* ------------------------------------------------- the codec on its own
TextAlphabet == {"0", "a", "B", " ", "g"}

SeqsUpTo(S, n) == UNION {[1..k -> S] : k \in 0..n}

InitCodec ==
  /\ codecIn \in {Bytes(b) : b \in SeqsUpTo(ByteSample, MaxBytes)}
                   \cup {Str(t) : t \in SeqsUpTo(TextAlphabet, MaxText)}
  /\ codecStep = "input"
  /\ codecEnc = Ok(None)
  /\ codecDec = Ok(None)
  /\ InitProgIdle
  /\ InitCompIdle

\* hexlify(B) for a byte sequence B.
Encode ==
  /\ codecStep = "input"
  /\ codecIn.type = "bytes"
  /\ codecEnc' = hexlify(codecIn)
  /\ codecStep' = "encoded"
  /\ UNCHANGED <<codecIn, codecDec>>
  /\ UNCHANGED <<progVars, compVars>>

\* unhexlify(hexlify(B)): the decode runs when the encode returned.
DecodeEncoded ==
  /\ codecStep = "encoded"
  /\ codecEnc.ok
  /\ codecDec' = unhexlify(codecEnc.val.val)
  /\ codecStep' = "decoded"
  /\ UNCHANGED <<codecIn, codecEnc>>
  /\ UNCHANGED <<progVars, compVars>>

\* unhexlify(text) for a text.
DecodeText ==
  /\ codecStep = "input"
  /\ codecIn.type = "str"
  /\ codecDec' = unhexlify(codecIn.val)
  /\ codecStep' = "decoded"
  /\ UNCHANGED <<codecIn, codecEnc>>
  /\ UNCHANGED <<progVars, compVars>>

NextCodec == Encode \/ DecodeEncoded \/ DecodeText

SpecCodec == InitCodec /\ [][NextCodec]_vars

\* ------------------------------------------------------------- properties
UpperHexDigit(n) ==
  CASE n = 0 -> "0" [] n = 1 -> "1" [] n = 2 -> "2" [] n = 3 -> "3"
    [] n = 4 -> "4" [] n = 5 -> "5" [] n = 6 -> "6" [] n = 7 -> "7"
    [] n = 8 -> "8" [] n = 9 -> "9" [] n = 10 -> "A" [] n = 11 -> "B"
    [] n = 12 -> "C" [] n = 13 -> "D" [] n = 14 -> "E" [] n = 15 -> "F"

\* The text the specification gives for a byte sequence: two uppercase hex digits
\* a byte, single spaces between the bytes.
HexText(b) ==
  [i \in 1..(IF Len(b) = 0 THEN 0 ELSE 3 * Len(b) - 1) |->
     CASE i % 3 = 1 -> UpperHexDigit(b[(i + 2) \div 3] \div 16)
       [] i % 3 = 2 -> UpperHexDigit(b[(i + 1) \div 3] % 16)
       [] OTHER -> " "]

Has(log, x) == \E i \in 1..Len(log) : log[i] = x
HasKind(lines, k) == \E i \in 1..Len(lines) : lines[i].kind = k

\* The --batch string is given and its residue of hex digits has odd length.
OddResidue(a) == a.batch_mode # None /\ Len(StripNonHex(a.batch_mode.val)) % 2 = 1

\* Faults of the environment: the operator interrupts, the device goes away.
EnvFaults == {"KeyboardInterrupt", "SerialException"}

\* C1: a decode failure is reported and handled, it does not crash: in batch
\* mode, when the --batch string has an odd residue of hex digits, the pass ends
\* with the error line printed, no exception leaving main() and nothing written.
C1_DecodeFailureHandled ==
  (pc = "terminated" /\ Has(ioLog, "open") /\ OddResidue(args) /\ exc \notin EnvFaults)
    => (exc = "none" /\ HasKind(stderr, "ERROR:") /\ tx = <<>>)

ConfigUnsupported(a) ==
  a.baud \notin BAUDRATES \/ a.parity \notin PARITIES \/ a.stop_bits \notin STOPBITS

\* An error was shown: the ERROR: line of main(), or the interpreter's traceback.
ErrorShown == HasKind(stdout, "ERROR:") \/ HasKind(stderr, "Traceback")

NothingAfterClose == \A i \in 1..Len(ioLog) : ioLog[i] = "close" => i = Len(ioLog)

\* C3: the session is closed on every exit path; here for the exits no
\* exception causes (the exit keyword, the completed batch pass): when a process
\* that opened the port terminates, close() has been called, and nothing was
\* written or read after it.
C3_ClosedOnEveryExit ==
  (pc = "terminated" /\ Has(ioLog, "open") /\ exc = "none")
    => (ser = "closed" /\ NothingAfterClose)

\* C4: --batch always selects batch mode: with any string given to --batch,
\* the empty one included, do_interactive_mode is never entered, and at most one
\* write is made.
C4_BatchOptionSelectsBatch ==
  args.batch_mode # None =>
    (pc \notin {"i_banner", "i_prompt"} /\ ~HasKind(stdout, "banner") /\ Len(tx) <= 1)

\* C5: the history file is saved on every exit path: a terminated process has
\* written the history file exactly once, whatever ended it, and the write is the
\* last thing before the exit (no write while main() runs, never two).
C5_HistorySavedOnce ==
  /\ pc = "terminated" => histWrites = 1
  /\ histWrites = (IF pc \in {"exit", "terminated"} THEN 1 ELSE 0)

C5_Witness ==
  /\ pc = "terminated" /\ histWrites = 1
  /\ exc = "KeyboardInterrupt" /\ Has(ioLog, "write")

\* C6: the reply printed is the bytes drained: a batch pass that took bytes from
\* the port, and was not ended by an interrupt or a device error, has printed
\* exactly one line, the space-separated uppercase hex text of the drained bytes.
C6_ReplyIsDrainedBytes ==
  (pc = "terminated" /\ drained # <<>> /\ exc \notin EnvFaults)
    => stdout = <<Line("reply", HexText(drained))>>

\* C7: round trip: for every byte sequence B, hexlify(B) returns and
\* unhexlify of it is B.
C7_RoundTrip ==
  (codecIn.type = "bytes" /\ codecStep \in {"encoded", "decoded"})
    => (codecEnc.ok /\ unhexlify(codecEnc.val.val) = Ok(codecIn))

\* The process is, or was, in do_interactive_mode.
EnteredInteractive == ~SelectsBatch(args) /\ Has(ioLog, "open") /\ pc # "select_mode"

\* C8: no cancellation outside the prompt: in interactive mode an interrupt ends
\* the process only through the orderly shutdown at the prompt (close the
\* session, save the history, exit), so a KeyboardInterrupt never leaves
\* do_interactive_mode with the session still open.
C8_InterruptOnlyAtPrompt ==
  (EnteredInteractive /\ exc = "KeyboardInterrupt") => ser = "closed"

NoDuplicates(l) == \A i, j \in 1..Len(l) : i # j => l[i] # l[j]
Elements(l) == {l[i] : i \in 1..Len(l)}
Ascending(l) == \A i \in 1..(Len(l) - 1) : StrLess(l[i], l[i + 1])

\* The match list holds, once each, the words of the vocabulary (as it was at
\* the last call with index 0) that start with that call's prefix, and for the
\* empty prefix in ascending order.
C9_MatchList ==
  matches.bound =>
    /\ NoDuplicates(matches.val)
    /\ Elements(matches.val) = {w \in atZero.options : StartsWith(w, atZero.text)}
    /\ atZero.text = <<>> => Ascending(matches.val)

\* complete(prefix, i) returned the i-th entry of the match list, None from the
\* list's length on.
C9_Response ==
  (lastCall.op = "complete" /\ matches.bound) =>
    response = IF lastCall.state < Len(matches.val)
                 THEN Ok(Str(matches.val[lastCall.state + 1]))
                 ELSE Ok(None)

\* C9 as stated: the enumeration protocol, and every call of complete returns a
\* candidate or None in every state of the completer.
C9_Original ==
  /\ C9_MatchList
  /\ C9_Response
  /\ lastCall.op = "complete" => response.ok

\* C9 as amended: the enumeration protocol; a call of complete returns a
\* candidate or None once a call with index 0 has been made, and before that a
\* call with index > 0 raises AttributeError.
C9_Amended ==
  /\ C9_MatchList
  /\ C9_Response
  /\ atZero.called = matches.bound
  /\ lastCall.op = "complete" =>
       IF atZero.called THEN response.ok
                        ELSE lastCall.state > 0 /\ response = Raise("AttributeError")

C9_Witness ==
  /\ lastCall.op = "complete" /\ atZero.called
  /\ lastCall.text = <<"p">> /\ atZero.text = <<"p">>
  /\ Len(matches.val) = 2 /\ lastCall.state = 2
  /\ response = Ok(None)

\* What the serial layer supports, all fields of the configuration.
ConfigSupported(a) ==
  /\ a.baud \in BAUDRATES /\ a.parity \in PARITIES /\ a.stop_bits \in STOPBITS
  /\ a.data_bits \in BYTESIZES /\ a.read_timeout >= 0

\* C10: every field of the configuration is validated before the port is used:
\* the port is never written or polled with a configuration holding an
\* unsupported value.
C10_ConfigValidated ==
  (Has(ioLog, "write") \/ Has(ioLog, "inWaiting")) => ConfigSupported(args)

=============================================================================
